---- MODULE Spec2Model ----
(***************************************************************************)
(* Workflow execution core of the agent service: AgentService.executeAgent *)
(* and the step sequencer, step evaluator, condition evaluator and loop    *)
(* runner it drives, together with the MonitoringService metrics map and   *)
(* the agent_executions / workflow_executions tables it writes.            *)
(***************************************************************************)
EXTENDS Integers, Sequences, FiniteSets, TLC

\* ------------------------------------------------------------------ bounds
MaxSteps == 2   \* longest top-level step list of a workflow definition
MaxBody  == 1   \* longest step list nested in a loop
MaxIter  == 2   \* largest loop.iterations of a workflow definition
MaxRuns  == 2   \* executeAgent calls the request handler can have in flight

Runs == 1..MaxRuns

\* ------------------------------------------------------- JavaScript values
\* Every value that flows between steps is one of a few shapes; k is the shape.
\*   string     the request payload                          s = the text
\*   content    { content: s }, the Agent Invoker's output   s = the text
\*   toolResult { toolResult: "Tool ... executed ..." }
\*   success    { success: true }
\*   boolean    true / false                                 s = "true"/"false"
\*   number     n
\*   undefined
\*   array      the `results` array of executeLoop: n elements, each of them
\*              the SAME object, the run's context.stepResults array
\*   stepResults  the run's context.stepResults array itself
V(k, s, n) == [k |-> k, s |-> s, n |-> n]
Str(s)         == V("string", s, 0)
Content(s)     == V("content", s, 0)
ToolResult     == V("toolResult", "", 0)
ApiResult      == V("success", "", 0)
Bool(b)        == V("boolean", IF b THEN "true" ELSE "false", 0)
Num(n)         == V("number", "", n)
Undefined      == V("undefined", "", 0)
LoopResults(n) == V("array", "", n)
StepResultsRef == V("stepResults", "", 0)

\* JavaScript truthiness, as `!x`, `x && y` and `x || y` use it.
Truthy(v) ==
    CASE v.k = "boolean"   -> v.s = "true"
      [] v.k = "undefined" -> FALSE
      [] v.k = "number"    -> v.n # 0
      [] v.k = "string"    -> v.s # ""
      [] OTHER             -> TRUE

\* ------------------------------------------------------------ JSON.stringify
\* JSON text is a sequence of tokens.
RECURSIVE Joined(_)
Joined(ss) ==
    IF ss = <<>> THEN <<>>
    ELSE IF Len(ss) = 1 THEN Head(ss)
    ELSE Head(ss) \o <<",">> \o Joined(Tail(ss))

\* The text of a value that is no array.
ValueText(v) ==
    CASE v.k = "string"     -> <<"\"", v.s, "\"">>
      [] v.k = "content"    -> <<"{", "content", ":", "\"", v.s, "\"", "}">>
      [] v.k = "error"      -> <<"{", "error", ":", "\"", v.s, "\"", "}">>
      [] v.k = "toolResult" -> <<"{", "toolResult", ":", "\"", "Tool undefined executed successfully.", "\"", "}">>
      [] v.k = "success"    -> <<"{", "success", ":", "true", "}">>
      [] v.k = "boolean"    -> <<v.s>>
      [] v.k = "number"     -> <<ToString(v.n)>>
      [] OTHER              -> <<"null">>

\* stepResults holds an array that holds stepResults: serialising either
\* meets an object that is already on the serialiser's stack.
HasCycle(stepResults) ==
    \E i \in 1..Len(stepResults) : stepResults[i].k = "array" /\ stepResults[i].n >= 1

\* Text of the stepResults array when it has no cycle (its arrays are empty).
ListText(stepResults) ==
    <<"[">> \o
    Joined([i \in 1..Len(stepResults) |->
              IF stepResults[i].k = "array" THEN <<"[", "]">> ELSE ValueText(stepResults[i])])
    \o <<"]">>

CircularError == "Converting circular structure to JSON"

\* JSON.stringify(v), v living in a run whose context.stepResults is stepResults:
\* the text, or a TypeError for a circular structure. JSON.stringify(undefined)
\* is undefined: no text.
JSONstringify(v, stepResults) ==
    CASE v.k = "stepResults" ->
            IF HasCycle(stepResults) THEN [threw |-> TRUE, text |-> <<>>]
            ELSE [threw |-> FALSE, text |-> ListText(stepResults)]
      [] v.k = "array" ->
            IF v.n = 0 THEN [threw |-> FALSE, text |-> <<"[", "]">>]
            ELSE IF HasCycle(stepResults) THEN [threw |-> TRUE, text |-> <<>>]
            ELSE [threw |-> FALSE,
                  text |-> <<"[">> \o Joined([i \in 1..v.n |-> ListText(stepResults)]) \o <<"]">>]
      [] v.k = "undefined" -> [threw |-> FALSE, text |-> <<>>]
      [] OTHER -> [threw |-> FALSE, text |-> ValueText(v)]

\* ------------------------------------------------------ workflow definitions
KnownTypes == {"ai_generate", "tool_call", "condition", "data_transform", "external_api"}
StepTypes  == KnownTypes \cup {"send_email"}

NoCondition == ""
CondExprs == {"true", "false", "context.stepResults.length > 1", "missing.ref"}

\* Expressions whose evaluation fails otherwise (a missing field, a malformed
\* text) and one that yields a number.
MoreCondExprs == {"context.variables.user.name", "(", "context.stepResults.length"}

NoLoop == <<>>
Loop(n, steps) == <<[iterations |-> n, steps |-> steps]>>

Step(t, c, p, l) == [type |-> t, condition |-> c, passOutput |-> p, loop |-> l]

SeqsUpTo(S, n) == UNION {[1..m -> S] : m \in 0..n}

PlainSteps   == {Step(t, NoCondition, p, NoLoop) : t \in StepTypes, p \in BOOLEAN}
GuardedSteps == {Step(t, c, p, NoLoop) : t \in {"tool_call", "condition"}, c \in CondExprs, p \in BOOLEAN}
MoreGuardedSteps ==
    {Step(t, c, FALSE, NoLoop) : t \in {"tool_call", "condition"}, c \in MoreCondExprs}
LeafSteps    == PlainSteps \cup GuardedSteps \cup MoreGuardedSteps

BodySteps ==
    {Step(t, NoCondition, FALSE, NoLoop) : t \in {"tool_call", "ai_generate", "send_email"}}
    \cup {Step("data_transform", NoCondition, TRUE, NoLoop),
          Step("tool_call", "context.variables.loopIndex == 0", TRUE, NoLoop)}
Bodies == SeqsUpTo(BodySteps, MaxBody) \ {<<>>}

LoopSteps ==
    {Step(t, c, p, Loop(n, b)) :
        t \in {"tool_call", "data_transform"}, c \in {NoCondition, "false"},
        p \in BOOLEAN, n \in -1..MaxIter, b \in Bodies}

\* A loop step whose condition holds before the step is dispatched and no
\* longer once its result is in context.stepResults.
EarlyCondLoopSteps ==
    {Step("tool_call", "context.stepResults.length < 1", p,
          Loop(1, <<Step("tool_call", NoCondition, FALSE, NoLoop)>>)) : p \in BOOLEAN}

AfterLoopSteps ==
    {Step(t, NoCondition, FALSE, NoLoop) : t \in {"tool_call", "ai_generate", "data_transform"}}

\* A loop whose nested steps are an inner loop and a step that follows it.
NestedBodies ==
    {<<Step("tool_call", NoCondition, FALSE,
            Loop(n, <<Step("tool_call", NoCondition, FALSE, NoLoop)>>)),
       Step(t, NoCondition, FALSE, NoLoop)>> :
        n \in 1..MaxIter, t \in {"tool_call", "data_transform"}}
NestedLoopSteps ==
    {Step("tool_call", NoCondition, FALSE, Loop(n, b)) : n \in 1..MaxIter, b \in NestedBodies}

Definitions ==
    SeqsUpTo(LeafSteps, MaxSteps)
    \cup {<<l>> \o post : l \in LoopSteps \cup EarlyCondLoopSteps,
                            post \in SeqsUpTo(AfterLoopSteps, 1)}
    \cup {<<l>> : l \in NestedLoopSteps}


\* ------------------------------------------------------------------- state
AgentIds    == {"a1", "a0"}     \* "a0" is no row of the agents table
Agents      == {"a1"}
NoWorkflow  == ""               \* executeAgent called without workflowId
WorkflowIds == {"w1", "w0"}     \* "w0" is no row of the workflows table
Inputs      == {Str("hello"), Str("order 17")}
Replies     == {"HELLO"}        \* what the model backend answers
ModelErrors == {"OpenAI not configured"}

NoCall == [agentId |-> "", input |-> Undefined, workflowId |-> NoWorkflow]
Calls  == [agentId : AgentIds, input : Inputs, workflowId : WorkflowIds \cup {NoWorkflow}]

VARIABLES
    call,               \* call[r]: the arguments of executeAgent call r
    pc,                 \* pc[r]: where call r stands
    stack,              \* stack[r]: frames of processWorkflowSteps / executeLoop, innermost last
    context,            \* context[r]: the ExecutionContext built by executeAdvancedWorkflow
    result,             \* result[r]: `result` of executeAgent
    error,              \* error[r]: the error caught by executeAgent's inner catch
    outcome,            \* outcome[r]: what executeAgent returned or threw to the route handler
    workflows,          \* the workflows table: definition.steps of workflow "w1"
    agentExecutions,    \* the agent_executions table, row r created by call r
    workflowExecutions, \* the workflow_executions table: rows inserted, per call
    agentMetrics,       \* MonitoringService.agentMetrics
    subscriber,         \* a listener of 'agent-metrics-updated' is attached
    dbFaulty,           \* the database may reject a statement
    writes,             \* history: statuses written to row r of agent_executions, in order
    log,                \* history: steps dispatched to executeWorkflowStep by call r, in order
    sequenced,          \* history: how the top-level processWorkflowSteps of call r ended
    modelCalls          \* history: calls of aiEngine.generateResponse made by call r

vars == <<call, pc, stack, context, result, error, outcome, workflows, agentExecutions,
          workflowExecutions, agentMetrics, subscriber, dbFaulty, writes, log, sequenced,
          modelCalls>>

NoRow == [status |-> "none", input |-> <<>>, output |-> <<>>, completedAt |-> "null"]
NoMetrics == [present |-> FALSE, status |-> "idle", requestsPerMinute |-> 0, errorRate |-> 0]
\* variables: {}: a property that is not there reads undefined.
NoVariables == [loopIndex |-> Undefined, skip |-> Undefined]
NoContext == [agentId |-> "", executionId |-> 0,
              variables |-> NoVariables, stepResults |-> <<>>]
NoOutcome == [kind |-> "pending", value |-> Undefined, error |-> ""]

Returned(v) == [kind |-> "returned", value |-> v, error |-> ""]
Threw(e)    == [kind |-> "threw", value |-> Undefined, error |-> e]

\* The state before any call has run. `first` are the calls that arrive, with
\* arguments from `calls`; `defs` are the definitions workflow "w1" may have.
InitFrom(first, listener, faulty, calls, defs) ==
    /\ call \in [Runs -> calls \cup {NoCall}]
    /\ \A r \in Runs : (call[r] = NoCall) <=> (r \notin first)
    /\ workflows \in
         IF \E r \in Runs : call[r].agentId \in Agents /\ call[r].workflowId = "w1"
         THEN [{"w1"} -> defs]
         ELSE [{"w1"} -> {<<>>}]
    /\ pc = [r \in Runs |-> IF r \in first THEN "getAgent" ELSE "idle"]
    /\ stack = [r \in Runs |-> <<>>]
    /\ context = [r \in Runs |-> NoContext]
    /\ result = [r \in Runs |-> Undefined]
    /\ error = [r \in Runs |-> ""]
    /\ outcome = [r \in Runs |-> NoOutcome]
    /\ agentExecutions = [r \in Runs |-> NoRow]
    /\ workflowExecutions = [r \in Runs |-> <<>>]
    /\ agentMetrics = [a \in AgentIds |-> NoMetrics]
    /\ subscriber = listener
    /\ dbFaulty = faulty
    /\ writes = [r \in Runs |-> <<>>]
    /\ log = [r \in Runs |-> <<>>]
    /\ sequenced = [r \in Runs |-> "no"]
    /\ modelCalls = [r \in Runs |-> 0]

\* A reliable database, any call and any definition.
InitWith(first, listener) == InitFrom(first, listener, FALSE, Calls, Definitions)

\* --------------------------------------------------------- MonitoringService
\* updateAgentMetrics: merge the partial metrics over the existing entry (or the
\* default one) and store it. The map is set before the event is emitted.
\* Of an entry the status and the two counters executeAgent writes are kept;
\* lastActivity and averageResponseTime are clock readings and are left out.
updateAgentMetrics(metrics, agentId, partial) ==
    LET existing == IF metrics[agentId].present THEN metrics[agentId] ELSE NoMetrics
    IN  [metrics EXCEPT ![agentId] =
            [f \in DOMAIN existing |->
                IF f = "present" THEN TRUE
                ELSE IF f \in DOMAIN partial THEN partial[f] ELSE existing[f]]]

\* this.emit('agent-metrics-updated', updated) calls the listeners synchronously;
\* a listener that throws makes emit, and so updateAgentMetrics, throw.
EmitRaises == IF subscriber THEN BOOLEAN ELSE {FALSE}
ListenerError == "listener failed"

\* ------------------------------------------------------------------ database
\* An awaited db.select / db.insert / db.update resolves, or rejects when the
\* database fails the statement.
DbRaises == IF dbFaulty THEN BOOLEAN ELSE {FALSE}
DbError == "db failed"

\* ------------------------------------------------------- Condition Evaluator
\* x == true: true for true, and for what converts to the number 1.
LooseEqualsTrue(v) == v = Bool(TRUE) \/ v = Num(1) \/ v = Str("1")

\* new Function('context', `return ${condition}`)(context): the value, or a throw.
EvalExpression(condition, ctx) ==
    CASE condition = "true"  -> [threw |-> FALSE, val |-> Bool(TRUE)]
      [] condition = "false" -> [threw |-> FALSE, val |-> Bool(FALSE)]
      [] condition = "context.stepResults.length > 1" ->
            [threw |-> FALSE, val |-> Bool(Len(ctx.stepResults) > 1)]
      [] condition = "context.stepResults.length < 1" ->
            [threw |-> FALSE, val |-> Bool(Len(ctx.stepResults) < 1)]
      [] condition = "context.variables.skip == true" ->
            [threw |-> FALSE, val |-> Bool(LooseEqualsTrue(ctx.variables.skip))]
      [] condition = "context.variables.loopIndex == 0" ->
            [threw |-> FALSE, val |-> Bool(ctx.variables.loopIndex = Num(0))]
      [] condition = "missing.ref" -> [threw |-> TRUE, val |-> Undefined]         \* ReferenceError
      [] condition = "context.variables.user.name" -> [threw |-> TRUE, val |-> Undefined]  \* TypeError
      [] condition = "(" -> [threw |-> TRUE, val |-> Undefined]                   \* SyntaxError
      [] condition = "context.stepResults.length" ->
            [threw |-> FALSE, val |-> Num(Len(ctx.stepResults))]
      [] OTHER -> [threw |-> FALSE, val |-> Undefined]   \* `return ` / `return undefined`

evaluateCondition(condition, ctx) ==
    LET e == EvalExpression(condition, ctx)
    IN  IF e.threw THEN Bool(FALSE) ELSE e.val

\* The function made by new Function has the argument `context` and the global
\* scope of the process: besides reading the context, an expression can change
\* the context it is given and read what the process holds. What a call of it
\* can give: the value (or the throw) and the context as the call leaves it.
\* Of an expression that reads the process the value is any the process can
\* make it have.
ImpureCondExprs == {"process.env.NODE_ENV == 'test'", "context.stepResults.pop()"}
EvalOutcomes(condition, ctx) ==
    CASE condition = "process.env.NODE_ENV == 'test'" ->
            {[threw |-> FALSE, val |-> Bool(b), ctx |-> ctx] : b \in BOOLEAN}
      [] condition = "context.stepResults.pop()" ->
            {[threw |-> FALSE,
              val   |-> IF ctx.stepResults = <<>> THEN Undefined
                        ELSE ctx.stepResults[Len(ctx.stepResults)],
              ctx   |-> [ctx EXCEPT !.stepResults =
                            IF @ = <<>> THEN @ ELSE SubSeq(@, 1, Len(@) - 1)]]}
      [] OTHER ->
            {[threw |-> EvalExpression(condition, ctx).threw,
              val   |-> EvalExpression(condition, ctx).val,
              ctx   |-> ctx]}

\* ------------------------------------------------------------- Agent Invoker
Ok(v)   == [ok |-> TRUE, val |-> v, err |-> "", calls |-> 0]
Fail(e) == [ok |-> FALSE, val |-> Undefined, err |-> e, calls |-> 0]

\* The outcome of one call of aiEngine.generateResponse.
Invoked(o) == [o EXCEPT !.calls = 1]

\* processAgentInput: the prompt is JSON.stringify(input); the backend answers
\* or fails; the answer is normalised to { content }.
processAgentInput(input, stepResults) ==
    IF JSONstringify(input, stepResults).threw THEN {Fail(CircularError)}
    ELSE {Invoked(Ok(Content(reply))) : reply \in Replies}
         \cup {Invoked(Fail(e)) : e \in ModelErrors}

\* ------------------------------------------------------------ Step Evaluator
\* executeAIStep reads the agent again; no operation removes an agent, so the
\* agent that executeAgent found is still there, unless the read itself fails.
executeAIStep(step, ctx, input) ==
    processAgentInput(input, ctx.stepResults) \cup {Fail(DbError) : x \in DbRaises \ {FALSE}}
\* Variant: the tool step gives back its input.
executeToolStepEcho(step, ctx, input) == {Ok(input)}
executeToolStep(step, ctx, input) == {Ok(ToolResult)}
\* Variant: the transform takes the text out of a model answer.
transformDataContent(data) == IF data.k = "content" THEN Str(data.s) ELSE data

transformData(data) == data
callExternalAPI(data) == ApiResult

\* `Unknown step type: ${step.type}`
UnknownStepError(type) ==
    IF type = "send_email" THEN "Unknown step type: send_email" ELSE "Unknown step type: undefined"

\* Variant: a step of an unknown type yields no result instead of an error.
executeWorkflowStepLenient(step, ctx, input) ==
    CASE step.type = "ai_generate"    -> executeAIStep(step, ctx, input)
      [] step.type = "tool_call"      -> executeToolStep(step, ctx, input)
      [] step.type = "condition"      -> {Ok(evaluateCondition(step.condition, ctx))}
      [] step.type = "data_transform" -> {Ok(transformData(input))}
      [] step.type = "external_api"   -> {Ok(callExternalAPI(input))}
      [] OTHER                        -> {Ok(Undefined)}

executeWorkflowStep(step, ctx, input) ==
    CASE step.type = "ai_generate"    -> executeAIStep(step, ctx, input)
      [] step.type = "tool_call"      -> executeToolStep(step, ctx, input)
      [] step.type = "condition"      -> {Ok(evaluateCondition(step.condition, ctx))}
      [] step.type = "data_transform" -> {Ok(transformData(input))}
      [] step.type = "external_api"   -> {Ok(callExternalAPI(input))}
      [] OTHER                        -> {Fail(UnknownStepError(step.type))}

\* ------------------------------------------------------------ Step Sequencer
Top(s) == s[Len(s)]
Pop(s) == SubSeq(s, 1, Len(s) - 1)
SetTop(s, f) == [s EXCEPT ![Len(s)] = f]

\* A call of processWorkflowSteps(steps, context, input): i is the step the
\* for-loop stands at, input is currentInput. path names the occurrence.
SequencerFrame(steps, input, path) ==
    [fn |-> "processWorkflowSteps", steps |-> steps, i |-> 1, input |-> input,
     iterations |-> 0, results |-> 0, path |-> path]

\* const iterations = step.loop.iterations || 1
Iterations(loop) == IF loop.iterations = 0 THEN 1 ELSE loop.iterations

\* results.push(result): the element pushed for an iteration is what
\* processWorkflowSteps returned, the context's stepResults array itself, so
\* every element of `results` reads as the whole list of the run.
ResultsElement(results, i, stepResults) == stepResults

\* A call of executeLoop(step, context, input): i is the loop counter, results
\* the number of elements pushed to `results`.
LoopFrame(loop, input, path) ==
    [fn |-> "executeLoop", steps |-> loop.steps, i |-> 0, input |-> input,
     iterations |-> Iterations(loop), results |-> 0, path |-> path]

\* Variants of the push: only truthy results are kept; the result is put first.
PushResultTruthy(stepResults, stepResult) ==
    IF Truthy(stepResult) THEN Append(stepResults, stepResult) ELSE stepResults
PushResultFront(stepResults, stepResult) == <<stepResult>> \o stepResults

\* context.stepResults.push(stepResult)
PushResult(stepResults, stepResult) == Append(stepResults, stepResult)

\* Variant: the step's result always becomes the next input.
NextInputAlways(step, stepResult, currentInput) == stepResult

\* if (step.passOutput) currentInput = stepResult
NextInput(step, stepResult, currentInput) ==
    IF step.passOutput THEN stepResult ELSE currentInput

\* if (step.condition && !this.evaluateCondition(step.condition, context)) continue
ConditionFalse(step, ctx) ==
    step.condition # NoCondition /\ ~Truthy(evaluateCondition(step.condition, ctx))

\* The same check with what the evaluation does to the context: whether the
\* step's loop is skipped, and the context after the check.
ConditionChecks(step, ctx) ==
    IF step.condition = NoCondition THEN {[false |-> FALSE, ctx |-> ctx]}
    ELSE {[false |-> ~Truthy(IF e.threw THEN Bool(FALSE) ELSE e.val), ctx |-> e.ctx] :
             e \in EvalOutcomes(step.condition, ctx)}

\* Variant: the for-loop catches the step's error and dispatches the step again.
PropagateRetry(frames) == frames

\* Variant: the for-loop catches the step's error and goes on with the next step.
PropagateResume(frames) == SetTop(frames, [Top(frames) EXCEPT !.i = @ + 1])

\* An error thrown by a step: neither processWorkflowSteps nor executeLoop nor
\* executeAdvancedWorkflow has a handler, so every frame is left.
Propagate(frames) == <<>>

\* One entry of the dispatch history.
\* loopIndex, seen: context.variables.loopIndex and context.stepResults as the
\* step finds them.
\* falseBefore: the step's condition is false in the context it is dispatched
\* with; falseAfter: the sequencer's own check, made after the push, is false.
Dispatch(f, step, ctx, o, falseAfter) ==
    [path |-> f.path \o <<f.i>>, type |-> step.type, condition |-> step.condition,
     passOutput |-> step.passOutput, hasLoop |-> step.loop # NoLoop, input |-> f.input,
     loopIndex |-> ctx.variables.loopIndex, seen |-> ctx.stepResults,
     falseBefore |-> ConditionFalse(step, ctx), falseAfter |-> falseAfter,
     ok |-> o.ok, result |-> o.val, error |-> o.err]

Init == InitWith({1}, FALSE)


\* -------------------------------------------------------- Workflow Executor
ErrorValue(e) == V("error", e, 0)

\* The row executeAgent inserts into agent_executions.
RunningRow(input) ==
    [status |-> "running", input |-> JSONstringify(input, <<>>).text,
     output |-> <<>>, completedAt |-> "null"]

\* db.update(agentExecutions).set({status: 'completed', output, completedAt})
CompletedRow(row, output) ==
    [row EXCEPT !.status = "completed", !.output = output, !.completedAt = "date"]

\* Variant: the failed record keeps what the steps produced so far.
FailedRowPartial(row, e, stepResults) ==
    [row EXCEPT !.status = "failed",
                !.output = JSONstringify(StepResultsRef, stepResults).text,
                !.completedAt = "date"]

\* db.update(agentExecutions).set({status: 'failed', output: {error: message}, completedAt})
FailedRow(row, e, stepResults) ==
    [row EXCEPT !.status = "failed",
                !.output = JSONstringify(ErrorValue(e), stepResults).text,
                !.completedAt = "date"]

\* The error executeAgent's inner catch re-throws.
Rethrown(e) == e

\* Variant: the catch writes the metrics and re-throws, the record is not updated.
CaughtRethrowOnly(r, e, metrics) ==
    /\ agentMetrics' = updateAgentMetrics(metrics, call[r].agentId,
           [status |-> "error", errorRate |-> metrics[call[r].agentId].errorRate + 1])
    /\ pc' = [pc EXCEPT ![r] = "done"]
    /\ outcome' = [outcome EXCEPT ![r] = Threw(e)]
    /\ error' = [error EXCEPT ![r] = e]

\* const context = {agentId, executionId, variables: {}, stepResults: []}: the
\* object literal makes a new object in every call of executeAdvancedWorkflow.
NewContext(agentId, executionId) ==
    [agentId |-> agentId, executionId |-> executionId,
     variables |-> NoVariables, stepResults |-> <<>>]

\* Variant: one context object, held by the service, serves every call.
ContextOfShared(r) == 1

\* The context object call r works on: its own.
ContextOf(r) == r

\* The inner catch of executeAgent, up to its await: the error metrics are
\* written first; when that throws, the record is left as it is and the new
\* error leaves executeAgent through the outer catch.
Caught(r, e, metrics) ==
    \E raised \in EmitRaises :
        /\ agentMetrics' = updateAgentMetrics(metrics, call[r].agentId,
               [status |-> "error", errorRate |-> metrics[call[r].agentId].errorRate + 1])
        /\ IF raised
           THEN /\ pc' = [pc EXCEPT ![r] = "done"]
                /\ outcome' = [outcome EXCEPT ![r] = Threw(ListenerError)]
                /\ error' = error
           ELSE /\ pc' = [pc EXCEPT ![r] = "updateFailed"]
                /\ outcome' = outcome
                /\ error' = [error EXCEPT ![r] = e]

\* const agent = await this.getAgent(agentId); ... updateAgentMetrics(processing)
GetAgent(r) ==
    /\ pc[r] = "getAgent"
    /\ \E failed \in DbRaises :
         IF failed
         THEN /\ pc' = [pc EXCEPT ![r] = "done"]
              /\ outcome' = [outcome EXCEPT ![r] = Threw(DbError)]
              /\ UNCHANGED agentMetrics
         ELSE IF call[r].agentId \notin Agents
         THEN /\ pc' = [pc EXCEPT ![r] = "done"]
              /\ outcome' = [outcome EXCEPT ![r] = Threw("Agent not found")]
              /\ UNCHANGED agentMetrics
         ELSE \E raised \in EmitRaises :
              /\ agentMetrics' = updateAgentMetrics(agentMetrics, call[r].agentId,
                                                    [status |-> "processing"])
              /\ IF raised
                 THEN /\ pc' = [pc EXCEPT ![r] = "done"]
                      /\ outcome' = [outcome EXCEPT ![r] = Threw(ListenerError)]
                 ELSE /\ pc' = [pc EXCEPT ![r] = "insertExecution"]
                      /\ outcome' = outcome
    /\ UNCHANGED <<dbFaulty, modelCalls, call, stack, context, result, error, workflows,
                   agentExecutions, workflowExecutions, subscriber, writes, log, sequenced>>

\* await db.insert(agentExecutions).values({... status: 'running' ...})
InsertExecution(r) ==
    /\ pc[r] = "insertExecution"
    /\ \E failed \in DbRaises :
         IF failed
         THEN /\ pc' = [pc EXCEPT ![r] = "done"]
              /\ outcome' = [outcome EXCEPT ![r] = Threw(DbError)]
              /\ UNCHANGED <<agentExecutions, writes>>
         ELSE /\ agentExecutions' = [agentExecutions EXCEPT ![r] = RunningRow(call[r].input)]
              /\ writes' = [writes EXCEPT ![r] = Append(@, "running")]
              /\ pc' = [pc EXCEPT ![r] =
                    IF call[r].workflowId # NoWorkflow THEN "getWorkflow"
                                                       ELSE "generateResponse"]
              /\ UNCHANGED outcome
    /\ UNCHANGED <<dbFaulty, modelCalls, call, stack, context, result, error, workflows,
                   workflowExecutions, agentMetrics, subscriber, log, sequenced>>

\* executeAdvancedWorkflow: const workflow = await this.getWorkflow(workflowId)
GetWorkflow(r) ==
    /\ pc[r] = "getWorkflow"
    /\ \E failed \in DbRaises :
         IF failed
         THEN /\ Caught(r, DbError, agentMetrics)
              /\ UNCHANGED <<context, stack>>
         ELSE IF call[r].workflowId \in DOMAIN workflows
         THEN /\ context' = [context EXCEPT ![ContextOf(r)] = NewContext(call[r].agentId, r)]
              /\ stack' = [stack EXCEPT ![r] =
                    <<SequencerFrame(workflows[call[r].workflowId], call[r].input, <<>>)>>]
              /\ pc' = [pc EXCEPT ![r] = "steps"]
              /\ UNCHANGED <<agentMetrics, outcome, error>>
         ELSE /\ Caught(r, "Workflow not found", agentMetrics)
              /\ UNCHANGED <<context, stack>>
    /\ UNCHANGED <<dbFaulty, modelCalls, call, result, workflows, agentExecutions,
                   workflowExecutions, subscriber, writes, log, sequenced>>

\* Direct execution: result = await this.processAgentInput(agent, input)
GenerateResponse(r) ==
    /\ pc[r] = "generateResponse"
    /\ \E o \in processAgentInput(call[r].input, <<>>) :
         /\ modelCalls' = [modelCalls EXCEPT ![r] = @ + o.calls]
         /\ IF o.ok
            THEN /\ result' = [result EXCEPT ![r] = o.val]
                 /\ pc' = [pc EXCEPT ![r] = "updateCompleted"]
                 /\ UNCHANGED <<agentMetrics, outcome, error>>
            ELSE /\ Caught(r, o.err, agentMetrics)
                 /\ UNCHANGED result
    /\ UNCHANGED <<dbFaulty, call, stack, context, workflows, agentExecutions,
                   workflowExecutions, subscriber, writes, log, sequenced>>

\* One turn of the for-loop of processWorkflowSteps: dispatch the step, push
\* its result, pass the output on, then check the condition and enter the loop.
ExecuteStep(r) ==
    /\ pc[r] = "steps" /\ stack[r] # <<>>
    /\ Top(stack[r]).fn = "processWorkflowSteps"
    /\ Top(stack[r]).i <= Len(Top(stack[r]).steps)
    /\ LET f    == Top(stack[r])
           step == f.steps[f.i]
           ctx  == context[ContextOf(r)]
       IN  \E o \in executeWorkflowStep(step, ctx, f.input) :
           /\ modelCalls' = [modelCalls EXCEPT ![r] = @ + o.calls]
           /\ IF o.ok
                THEN \E check \in ConditionChecks(step,
                                   [ctx EXCEPT !.stepResults = PushResult(@, o.val)]) :
                     LET nextIn == NextInput(step, o.val, f.input)
                         skip   == check.false
                         enter  == ~skip /\ step.loop # NoLoop
                     IN  /\ context' = [context EXCEPT ![ContextOf(r)] = check.ctx]
                         /\ stack' = [stack EXCEPT ![r] =
                               IF enter
                               THEN Append(SetTop(@, [f EXCEPT !.input = nextIn]),
                                           LoopFrame(step.loop[1], nextIn, f.path \o <<f.i>>))
                               ELSE SetTop(@, [f EXCEPT !.input = nextIn, !.i = @ + 1])]
                         /\ log' = [log EXCEPT ![r] = Append(@, Dispatch(f, step, ctx, o, skip))]
                         /\ UNCHANGED <<pc, error, outcome, agentMetrics, sequenced>>
                ELSE LET left == Propagate(stack[r])
                     IN  /\ log' = [log EXCEPT ![r] = Append(@, Dispatch(f, step, ctx, o, FALSE))]
                         /\ UNCHANGED context
                         /\ IF left = <<>>
                            THEN /\ stack' = [stack EXCEPT ![r] = <<>>]
                                 /\ sequenced' = [sequenced EXCEPT ![r] = "threw"]
                                 /\ Caught(r, o.err, agentMetrics)
                            ELSE /\ stack' = [stack EXCEPT ![r] = left]
                                 /\ UNCHANGED <<pc, error, outcome, agentMetrics, sequenced>>
    /\ UNCHANGED <<dbFaulty, call, result, workflows, agentExecutions, workflowExecutions,
                   subscriber, writes>>

\* Variant: every iteration starts on a context with an empty result list.
IterationContextFresh(ctx, i) ==
    [ctx EXCEPT !.variables.loopIndex = Num(i), !.stepResults = <<>>]

\* context.variables.loopIndex = i on the context executeLoop was given, which
\* is the one it passes on to processWorkflowSteps.
IterationContext(ctx, i) == [ctx EXCEPT !.variables.loopIndex = Num(i)]

\* executeLoop: i < iterations: context.variables.loopIndex = i, then the
\* nested steps run on the shared context with the loop's input.
LoopIterate(r) ==
    /\ pc[r] = "steps" /\ stack[r] # <<>>
    /\ Top(stack[r]).fn = "executeLoop"
    /\ Top(stack[r]).i < Top(stack[r]).iterations
    /\ LET f == Top(stack[r])
       IN  /\ context' = [context EXCEPT ![ContextOf(r)] = IterationContext(@, f.i)]
           /\ stack' = [stack EXCEPT ![r] =
                 Append(@, SequencerFrame(f.steps, f.input, f.path \o <<f.i>>))]
    /\ UNCHANGED <<dbFaulty, modelCalls, call, pc, result, error, outcome, workflows, agentExecutions,
                   workflowExecutions, agentMetrics, subscriber, writes, log, sequenced>>

\* executeLoop returns `results`; processWorkflowSteps takes it as currentInput.
LoopReturn(r) ==
    /\ pc[r] = "steps" /\ stack[r] # <<>>
    /\ Top(stack[r]).fn = "executeLoop"
    /\ ~(Top(stack[r]).i < Top(stack[r]).iterations)
    /\ LET f == Top(stack[r])
           p == Top(Pop(stack[r]))
       IN  stack' = [stack EXCEPT ![r] =
               SetTop(Pop(@), [p EXCEPT !.input = LoopResults(f.results), !.i = @ + 1])]
    /\ UNCHANGED <<dbFaulty, modelCalls, call, pc, context, result, error, outcome, workflows, agentExecutions,
                   workflowExecutions, agentMetrics, subscriber, writes, log, sequenced>>

\* processWorkflowSteps called by executeLoop returns context.stepResults:
\* results.push(result); i++
IterationReturn(r) ==
    /\ pc[r] = "steps" /\ Len(stack[r]) > 1
    /\ Top(stack[r]).fn = "processWorkflowSteps"
    /\ Top(stack[r]).i > Len(Top(stack[r]).steps)
    /\ LET p == Top(Pop(stack[r]))
       IN  stack' = [stack EXCEPT ![r] =
               SetTop(Pop(@), [p EXCEPT !.results = @ + 1, !.i = @ + 1])]
    /\ UNCHANGED <<dbFaulty, modelCalls, call, pc, context, result, error, outcome, workflows, agentExecutions,
                   workflowExecutions, agentMetrics, subscriber, writes, log, sequenced>>

\* The top-level processWorkflowSteps returns context.stepResults to
\* executeAdvancedWorkflow, which serialises input and result for the
\* workflow_executions row.
WorkflowReturn(r) ==
    /\ pc[r] = "steps" /\ Len(stack[r]) = 1
    /\ Top(stack[r]).fn = "processWorkflowSteps"
    /\ Top(stack[r]).i > Len(Top(stack[r]).steps)
    /\ stack' = [stack EXCEPT ![r] = <<>>]
    /\ sequenced' = [sequenced EXCEPT ![r] = "returned"]
    /\ IF JSONstringify(StepResultsRef, context[ContextOf(r)].stepResults).threw
       THEN /\ Caught(r, CircularError, agentMetrics)
            /\ UNCHANGED result
       ELSE /\ result' = [result EXCEPT ![r] = StepResultsRef]
            /\ pc' = [pc EXCEPT ![r] = "insertWorkflowExecution"]
            /\ UNCHANGED <<agentMetrics, outcome, error>>
    /\ UNCHANGED <<dbFaulty, modelCalls, call, context, workflows, agentExecutions, workflowExecutions,
                   subscriber, writes, log>>

\* await db.insert(workflowExecutions).values({... status: 'completed' ...})
InsertWorkflowExecution(r) ==
    /\ pc[r] = "insertWorkflowExecution"
    /\ \E failed \in DbRaises :
         IF failed
         THEN /\ Caught(r, DbError, agentMetrics)
              /\ UNCHANGED workflowExecutions
         ELSE /\ workflowExecutions' = [workflowExecutions EXCEPT ![r] = Append(@,
                    [status |-> "completed",
                     input  |-> JSONstringify(call[r].input,
                                              context[ContextOf(r)].stepResults).text,
                     output |-> JSONstringify(result[r],
                                              context[ContextOf(r)].stepResults).text])]
              /\ pc' = [pc EXCEPT ![r] = "updateCompleted"]
              /\ UNCHANGED <<agentMetrics, outcome, error>>
    /\ UNCHANGED <<dbFaulty, modelCalls, call, stack, context, result, workflows,
                   agentExecutions, subscriber, writes, log, sequenced>>

\* Variant: the count is started again instead of being read from the map.
requestsPerMinuteReset(metrics, a) == 1

\* (monitoringService.getAgentMetrics(agentId)?.requestsPerMinute || 0) + 1,
\* read in the statement that writes it.
requestsPerMinuteNext(metrics, a) == metrics[a].requestsPerMinute + 1

\* await db.update(agentExecutions).set({status: 'completed' ...}); then the
\* idle metrics, inside the same try block; then return result.
UpdateCompleted(r) ==
    /\ pc[r] = "updateCompleted"
    /\ LET js == JSONstringify(result[r], context[ContextOf(r)].stepResults)
           a  == call[r].agentId
       IN  \E failed \in DbRaises :
           IF js.threw \/ failed
           THEN /\ Caught(r, IF js.threw THEN CircularError ELSE DbError, agentMetrics)
                /\ UNCHANGED <<agentExecutions, writes>>
           ELSE /\ agentExecutions' = [agentExecutions EXCEPT ![r] = CompletedRow(@, js.text)]
                /\ writes' = [writes EXCEPT ![r] = Append(@, "completed")]
                /\ \E raised \in EmitRaises :
                     LET m == updateAgentMetrics(agentMetrics, a,
                                 [status |-> "idle",
                                  requestsPerMinute |-> requestsPerMinuteNext(agentMetrics, a)])
                     IN  IF raised
                         THEN Caught(r, ListenerError, m)
                         ELSE /\ agentMetrics' = m
                              /\ pc' = [pc EXCEPT ![r] = "done"]
                              /\ outcome' = [outcome EXCEPT ![r] = Returned(result[r])]
                              /\ error' = error
    /\ UNCHANGED <<dbFaulty, modelCalls, call, stack, context, result, workflows,
                   workflowExecutions, subscriber, log, sequenced>>

\* await db.update(agentExecutions).set({status: 'failed' ...}); throw error
UpdateFailed(r) ==
    /\ pc[r] = "updateFailed"
    /\ \E failed \in DbRaises :
         IF failed
         THEN /\ outcome' = [outcome EXCEPT ![r] = Threw(DbError)]
              /\ UNCHANGED <<agentExecutions, writes>>
         ELSE /\ agentExecutions' = [agentExecutions EXCEPT ![r] =
                    FailedRow(@, error[r], context[ContextOf(r)].stepResults)]
              /\ writes' = [writes EXCEPT ![r] = Append(@, "failed")]
              /\ outcome' = [outcome EXCEPT ![r] = Threw(Rethrown(error[r]))]
    /\ pc' = [pc EXCEPT ![r] = "done"]
    /\ UNCHANGED <<dbFaulty, modelCalls, call, stack, context, result, error, workflows,
                   workflowExecutions, agentMetrics, subscriber, log, sequenced>>

Next ==
    \E r \in Runs :
        \/ GetAgent(r)
        \/ InsertExecution(r)
        \/ GetWorkflow(r)
        \/ GenerateResponse(r)
        \/ ExecuteStep(r)
        \/ LoopIterate(r)
        \/ LoopReturn(r)
        \/ IterationReturn(r)
        \/ WorkflowReturn(r)
        \/ InsertWorkflowExecution(r)
        \/ UpdateCompleted(r)
        \/ UpdateFailed(r)

\* One call of executeAgent arrives (call 1), with any of the arguments Calls
\* and any of the workflow definitions Definitions.
\* The build under src/: nothing listens to 'agent-metrics-updated'.
Spec == Init /\ [][Next]_vars

\* The same program with a listener attached to the exported monitoringService.
InitSubscriber == InitWith({1}, TRUE)
SpecSubscriber == InitSubscriber /\ [][Next]_vars

\* One call on a workflow some of whose conditions are expressions that do
\* more than read the context.
ImpureGuardedSteps ==
    {Step("tool_call", c, FALSE, NoLoop) : c \in ImpureCondExprs}
    \cup {Step("tool_call", c, FALSE, Loop(1, <<Step("tool_call", NoCondition, FALSE, NoLoop)>>)) :
             c \in ImpureCondExprs}
ImpureDefinitions ==
    {<<g>> \o post : g \in ImpureGuardedSteps, post \in SeqsUpTo(AfterLoopSteps, 1)}
InitExpressions == InitFrom({1}, FALSE, FALSE, Calls, Definitions \cup ImpureDefinitions)
SpecExpressions == InitExpressions /\ [][Next]_vars

\* The calls the handler can have in flight at once, on the same agent and,
\* when they name a workflow, on the same workflow: the route handler awaits
\* executeAgent per request, and every await of a call lets the other calls
\* run.
ConcurrentCalls == [agentId : Agents, input : Inputs, workflowId : {"w1", NoWorkflow}]
ConcurrentDefinitions ==
    {<<Step("ai_generate", NoCondition, TRUE, NoLoop),
       Step("data_transform", NoCondition, FALSE, NoLoop)>>,
     <<Step("data_transform", NoCondition, FALSE,
            Loop(MaxIter, <<Step("tool_call", "context.variables.loopIndex == 0", TRUE, NoLoop)>>)),
       Step("condition", "context.stepResults.length > 1", FALSE, NoLoop)>>,
     <<Step("tool_call", NoCondition, TRUE,
            Loop(1, <<Step("ai_generate", NoCondition, FALSE, NoLoop)>>)),
       Step("data_transform", NoCondition, FALSE, NoLoop)>>}
InitConcurrent == InitFrom(Runs, FALSE, FALSE, ConcurrentCalls, ConcurrentDefinitions)
SpecConcurrent == InitConcurrent /\ [][Next]_vars

\* One call on a database that may fail any statement. Every awaited call
\* settles and Node's event loop then runs the continuation that waits for it,
\* so a call that can take a step eventually takes one.
RunStep(r) ==
    \/ GetAgent(r) \/ InsertExecution(r) \/ GetWorkflow(r) \/ GenerateResponse(r)
    \/ ExecuteStep(r) \/ LoopIterate(r) \/ LoopReturn(r) \/ IterationReturn(r)
    \/ WorkflowReturn(r) \/ InsertWorkflowExecution(r) \/ UpdateCompleted(r)
    \/ UpdateFailed(r)
Fairness == \A r \in Runs : WF_vars(RunStep(r))
InitFaulty == InitFrom({1}, FALSE, TRUE, Calls, Definitions)
SpecFaulty == InitFaulty /\ [][Next]_vars /\ Fairness

\* The Step Sequencer by itself: processWorkflowSteps(steps, context, input)
\* as executeAdvancedWorkflow calls it, on a context whose variables the caller
\* has set. The call runs until it returns or throws.
SkipValues == {Undefined, Bool(TRUE), Bool(FALSE)}
ScenarioSkip == <<Step("tool_call", "context.variables.skip == true", FALSE, NoLoop)>>
SequencerDefinitions ==
    {<<g>> : g \in GuardedSteps} \cup ConcurrentDefinitions \cup {ScenarioSkip}
InitSequencer ==
    /\ call \in [Runs -> Calls \cup {NoCall}]
    /\ \A r \in Runs : (call[r] = NoCall) <=> (r # 1)
    /\ call[1].agentId \in Agents /\ call[1].workflowId = "w1"
    /\ workflows \in [{"w1"} -> SequencerDefinitions]
    /\ pc = [r \in Runs |-> IF r = 1 THEN "steps" ELSE "idle"]
    /\ stack = [r \in Runs |->
          IF r = 1 THEN <<SequencerFrame(workflows["w1"], call[1].input, <<>>)>> ELSE <<>>]
    /\ \E v \in SkipValues :
          context = [r \in Runs |->
             IF r = 1 THEN [NewContext(call[1].agentId, 1) EXCEPT !.variables.skip = v]
             ELSE NoContext]
    /\ result = [r \in Runs |-> Undefined]
    /\ error = [r \in Runs |-> ""]
    /\ outcome = [r \in Runs |-> NoOutcome]
    /\ agentExecutions = [r \in Runs |-> IF r = 1 THEN RunningRow(call[1].input) ELSE NoRow]
    /\ workflowExecutions = [r \in Runs |-> <<>>]
    /\ agentMetrics = updateAgentMetrics([a \in AgentIds |-> NoMetrics],
                                         call[1].agentId, [status |-> "processing"])
    /\ subscriber = FALSE
    /\ dbFaulty = FALSE
    /\ writes = [r \in Runs |-> IF r = 1 THEN <<"running">> ELSE <<>>]
    /\ log = [r \in Runs |-> <<>>]
    /\ sequenced = [r \in Runs |-> "no"]
    /\ modelCalls = [r \in Runs |-> 0]
NextSequencer ==
    \E r \in Runs :
        \/ ExecuteStep(r)
        \/ LoopIterate(r)
        \/ LoopReturn(r)
        \/ IterationReturn(r)
        \/ WorkflowReturn(r)
SpecSequencer == InitSequencer /\ [][NextSequencer]_vars


\* ================================================================== claims
Terminal == {"completed", "failed"}
Row(r) == agentExecutions[r]
StepsOf(r) == workflows["w1"]
Failing(r) == {i \in 1..Len(log[r]) : ~log[r][i].ok}

C2_StepErrorMarksFailed ==
    \A r \in Runs :
        (pc[r] = "done" /\ Failing(r) # {}) =>
            LET e == log[r][Len(log[r])].error
            IN  /\ Row(r).status = "failed"
                /\ Row(r).output = <<"{", "error", ":", "\"", e, "\"", "}">>
                /\ Row(r).completedAt = "date"
                /\ outcome[r] = Threw(e)

C2_Witness ==
    \E r \in Runs :
        /\ pc[r] = "done" /\ Failing(r) # {}
        /\ Len(context[r].stepResults) >= 1
        /\ Row(r).status = "failed"

\* C3: once a step raised, no step is dispatched any more in that run: a
\* failing dispatch is the last one of the run.
C3_NoStepAfterError ==
    \A r \in Runs : \A i \in Failing(r) : i = Len(log[r])

\* The step failed in iteration 0 of a loop of two or more iterations that is
\* followed by another top-level step.
C3_Witness ==
    \E r \in Runs :
        /\ pc[r] = "done" /\ Failing(r) # {}
        /\ LET p == log[r][Len(log[r])].path
           IN  /\ Len(p) = 3 /\ p[2] = 0
               /\ StepsOf(r)[p[1]].loop[1].iterations >= 2
               /\ Len(StepsOf(r)) > p[1]

\* C4: when the top-level sequencer returns without error, the record ends
\* completed, with the serialised result list as output, a completion
\* timestamp, and the caller receives that list.
C4_SuccessMarksCompleted ==
    \A r \in Runs :
        (pc[r] = "done" /\ sequenced[r] = "returned") =>
            /\ Row(r).status = "completed"
            /\ Row(r).output = JSONstringify(StepResultsRef, context[r].stepResults).text
            /\ Row(r).completedAt = "date"
            /\ outcome[r] = Returned(StepResultsRef)

\* C5: a run writes its record exactly twice, the create and one update at the
\* end; nothing is written while the steps run. (A call whose agent does not
\* resolve has no record.)
C5_WrittenExactlyTwice ==
    \A r \in Runs :
        /\ writes[r] \in {<<>>, <<"running">>, <<"running", "completed">>, <<"running", "failed">>}
        /\ Row(r).status = IF writes[r] = <<>> THEN "none" ELSE writes[r][Len(writes[r])]
        /\ pc[r] \in {"getWorkflow", "generateResponse", "steps", "insertWorkflowExecution",
                      "updateCompleted", "updateFailed"} => writes[r] = <<"running">>
        /\ pc[r] = "done" =>
              \/ Len(writes[r]) = 2
              \/ writes[r] = <<>> /\ outcome[r] = Threw("Agent not found")

C5_Witness ==
    \E r \in Runs :
        /\ pc[r] = "done" /\ Len(writes[r]) = 2 /\ writes[r][2] = "failed"
        /\ Len(log[r]) >= 2

\* C6: a call whose agent or workflow identifier does not resolve fails with
\* not-found before any record is created and before any step runs.
C6_NotFoundBeforeRecord ==
    \A r \in Runs :
        (error[r] = "Workflow not found" \/ outcome[r].error = "Agent not found") =>
            /\ Row(r).status = "none"
            /\ writes[r] = <<>>
            /\ log[r] = <<>>

PlainWorkflow(steps) ==
    \A k \in 1..Len(steps) : steps[k].condition = NoCondition /\ steps[k].loop = NoLoop

C8_PlainWorkflowResults ==
    \A r \in Runs :
        (sequenced[r] = "returned" /\ PlainWorkflow(StepsOf(r))) =>
            /\ Len(context[r].stepResults) = Len(StepsOf(r))
            /\ Len(log[r]) = Len(StepsOf(r))
            /\ \A k \in 1..Len(StepsOf(r)) :
                  /\ log[r][k].path = <<k>> /\ log[r][k].ok
                  /\ log[r][k].type = StepsOf(r)[k].type
                  /\ context[r].stepResults[k] = log[r][k].result
                  /\ StepsOf(r)[k].type = "tool_call" => context[r].stepResults[k] = ToolResult
                  /\ StepsOf(r)[k].type = "external_api" => context[r].stepResults[k] = ApiResult
                  /\ StepsOf(r)[k].type = "ai_generate" => context[r].stepResults[k].k = "content"

C8_Witness ==
    \E r \in Runs :
        /\ sequenced[r] = "returned" /\ PlainWorkflow(StepsOf(r))
        /\ Len(StepsOf(r)) >= 2
        /\ StepsOf(r)[1].type # StepsOf(r)[2].type

\* C9: a step whose condition evaluates to false is not dispatched: it appends
\* no result and has no side effect.
C9_FalseConditionNotDispatched ==
    \A r \in Runs : \A i \in 1..Len(log[r]) :
        ~log[r][i].falseBefore /\ ~log[r][i].falseAfter

\* C10: a step whose condition evaluates to false does not propagate input: the
\* next step of the list receives the input the skipped step had.
NextInList(p, q) ==
    /\ Len(p) = Len(q)
    /\ SubSeq(p, 1, Len(p) - 1) = SubSeq(q, 1, Len(q) - 1)
    /\ q[Len(q)] = p[Len(p)] + 1

C10_SkippedStepKeepsInput ==
    \A r \in Runs : \A i \in 1..(Len(log[r]) - 1) :
        (log[r][i].falseAfter /\ NextInList(log[r][i].path, log[r][i + 1].path)) =>
            log[r][i + 1].input = log[r][i].input


\* C11: of two consecutive executed steps k and k+1 of a list, step k having no
\* loop, step k+1 receives step k's result when step k has passOutput, and the
\* input step k received otherwise.
C11_PassOutputDecidesNextInput ==
    \A r \in Runs : \A i \in 1..(Len(log[r]) - 1) :
        (log[r][i].ok /\ ~log[r][i].hasLoop
            /\ NextInList(log[r][i].path, log[r][i + 1].path)) =>
            log[r][i + 1].input =
                IF log[r][i].passOutput THEN log[r][i].result ELSE log[r][i].input

\* A result that differs from the step's input was passed on to the next step.
C11_Witness ==
    \E r \in Runs : \E i \in 1..(Len(log[r]) - 1) :
        /\ log[r][i].ok /\ ~log[r][i].hasLoop
        /\ NextInList(log[r][i].path, log[r][i + 1].path)
        /\ log[r][i].passOutput
        /\ log[r][i].result # log[r][i].input
        /\ log[r][i + 1].input = log[r][i].result
        /\ log[r][i + 1].ok

\* C12: the Condition Evaluator never raises; an expression whose evaluation
\* fails gives false, so a step guarded by it is skipped, not executed, and the
\* run does not fail because of it.
EvaluationFails(condition, ctx) == EvalExpression(condition, ctx).threw

C12_FailingConditionSkips ==
    \A r \in Runs : \A i \in 1..Len(log[r]) :
        /\ EvaluationFails(log[r][i].condition, context[r]) =>
              evaluateCondition(log[r][i].condition, context[r]) = Bool(FALSE)
        /\ (log[r][i].type # "condition"
              /\ EvaluationFails(log[r][i].condition, context[r])) => FALSE

\* C13: the Condition Evaluator returns exactly true or false, so the entry of
\* every step of kind condition is the boolean true or false.
C13_ConditionResultBoolean ==
    \A r \in Runs : \A i \in 1..Len(log[r]) :
        (log[r][i].type = "condition" /\ log[r][i].ok) => log[r][i].result.k = "boolean"


\* The step of a definition that a path names: <<k>> is the k-th step of the
\* list, <<k, i, j>> the j-th nested step of the loop of step k (in iteration i).
RECURSIVE StepAt(_, _)
StepAt(steps, path) ==
    IF Len(path) = 1 THEN steps[path[1]]
    ELSE StepAt(steps[path[1]].loop[1].steps, SubSeq(path, 3, Len(path)))

\* The step with the loop in which the occurrence `path` is nested.
LoopStepOf(r, path) == StepAt(StepsOf(r), SubSeq(path, 1, Len(path) - 2))

\* C14: a loop with iterations = 0 executes none of its nested steps and leaves
\* the context's variables as they were.
C14_ZeroIterationsRunsNothing ==
    \A r \in Runs : \A i \in 1..Len(log[r]) :
        Len(log[r][i].path) >= 3 =>
            LoopStepOf(r, log[r][i].path).loop[1].iterations # 0

\* C15: a loop with a negative iteration count fails the run with an
\* invalid-loop error (and performs no iteration).
EnteredLoop(e) == e.ok /\ e.hasLoop /\ ~e.falseAfter

C15_NegativeIterationsFail ==
    \A r \in Runs :
        (/\ pc[r] = "done"
         /\ \E i \in 1..Len(log[r]) :
               /\ EnteredLoop(log[r][i])
               /\ StepAt(StepsOf(r), log[r][i].path).loop[1].iterations < 0) =>
            /\ outcome[r].kind = "threw"
            /\ Row(r).status = "failed"

\* C16: a loop of n >= 1 iterations returns n elements, element i being the
\* list of the results of the nested steps executed in iteration i only.
IsPrefix(p, q) == Len(p) <= Len(q) /\ SubSeq(q, 1, Len(p)) = p

IterationResults(r, loopPath, i) ==
    LET es == SelectSeq(log[r], LAMBDA e : e.ok /\ IsPrefix(loopPath \o <<i>>, e.path))
    IN  [j \in 1..Len(es) |-> es[j].result]

\* The sequencer frame on top has just taken the return value of the loop of
\* its previous step as currentInput.
LoopJustReturned(r) ==
    /\ pc[r] = "steps" /\ stack[r] # <<>>
    /\ Top(stack[r]).fn = "processWorkflowSteps"
    /\ Top(stack[r]).i > 1
    /\ log[r] # <<>>
    /\ \E j \in 1..Len(log[r]) :
          /\ log[r][j].path = Top(stack[r]).path \o <<Top(stack[r]).i - 1>>
          /\ EnteredLoop(log[r][j])
          /\ \A m \in (j + 1)..Len(log[r]) : IsPrefix(log[r][j].path, log[r][m].path)

C16_LoopResultsPerIteration ==
    \A r \in Runs :
        LoopJustReturned(r) =>
            LET f == Top(stack[r])
                loopPath == f.path \o <<f.i - 1>>
                n == StepAt(StepsOf(r), loopPath).loop[1].iterations
            IN  n >= 1 =>
                  /\ f.input.k = "array" /\ f.input.n = n
                  /\ \A i \in 0..(n - 1) :
                        ResultsElement(f.input, i, context[r].stepResults)
                            = IterationResults(r, loopPath, i)

\* C17: every nested step executed in iteration i of a loop finds
\* context.variables.loopIndex = i, also after an inner loop of that iteration.
C17_LoopIndexIsIteration ==
    \A r \in Runs : \A i \in 1..Len(log[r]) :
        Len(log[r][i].path) >= 3 =>
            log[r][i].loopIndex = Num(log[r][i].path[Len(log[r][i].path) - 1])

\* C18: for every executed step with a loop (a step whose condition, evaluated
\* before the step, does not skip it), the loop runs and the list it returns
\* is the input of the next step of the list, whatever passOutput says.
C18_LoopReturnIsNextInput ==
    \A r \in Runs : \A i \in 1..Len(log[r]) : \A j \in (i + 1)..Len(log[r]) :
        (/\ log[r][i].ok /\ log[r][i].hasLoop /\ ~log[r][i].falseBefore
         /\ NextInList(log[r][i].path, log[r][j].path)) =>
            log[r][j].input.k = "array"

\* C19: the list the sequencer returns has one entry per non-skipped step of
\* its list, the entry of a step with a loop being the list of per-iteration
\* results; results of nested steps are no entries of the enclosing list.
\* Stated for runs in which no condition is false, so that no step is skipped.
NothingSkipped(r) ==
    \A i \in 1..Len(log[r]) : ~log[r][i].falseBefore /\ ~log[r][i].falseAfter

C19_OneEntryPerStep ==
    \A r \in Runs :
        (sequenced[r] = "returned" /\ NothingSkipped(r)) =>
            /\ Len(context[r].stepResults) = Len(StepsOf(r))
            /\ \A k \in 1..Len(StepsOf(r)) :
                  (k <= Len(context[r].stepResults) /\ StepsOf(r)[k].loop # NoLoop) =>
                      context[r].stepResults[k].k = "array"

\* C20: dispatching a step of a type outside the five known ones raises
\* "Unknown step type": nothing is appended to the results for it, it is the
\* last step dispatched in the run, and the record ends failed.
UnknownDispatched(r) == {i \in 1..Len(log[r]) : log[r][i].type \notin KnownTypes}

C20_UnknownStepKindFails ==
    \A r \in Runs : \A i \in UnknownDispatched(r) :
        /\ ~log[r][i].ok
        /\ log[r][i].error = UnknownStepError(log[r][i].type)
        /\ i = Len(log[r])
        /\ Len(context[r].stepResults) = Len(log[r]) - 1
        /\ pc[r] = "done" =>
              /\ Row(r).status = "failed"
              /\ outcome[r] = Threw(log[r][i].error)

\* The unknown step was a nested step of the loop of step 1, dispatched after
\* step 1 itself succeeded, and step 2 of the workflow never ran.
C20_Witness ==
    \E r \in Runs :
        /\ pc[r] = "done" /\ UnknownDispatched(r) # {}
        /\ Len(log[r]) >= 2
        /\ Len(StepsOf(r)) = 2
        /\ log[r][Len(log[r])].path[1] = 1
        /\ Len(context[r].stepResults) >= 1
        /\ Row(r).status = "failed"

\* C21: concurrent runs do not share a context: whatever the interleaving, the
\* context a run ends with (step results and variables) is the one the same
\* workflow gives on the same input when nothing else runs, and at every
\* moment a run's result list holds the results of its own steps only.
\* RunAlone is that reference: the sequencer and the loop runner as functions.
RECURSIVE SequencerAlone(_, _, _)
RECURSIVE LoopAlone(_, _, _)
SequencerAlone(steps, k, s) ==
    IF k > Len(steps) \/ ~s.ok THEN s
    ELSE LET step == steps[k]
             outs == {o \in executeWorkflowStep(step, s.ctx, s.input) : o.ok}
         IN  IF outs = {} THEN [s EXCEPT !.ok = FALSE]
             ELSE LET o      == CHOOSE x \in outs : TRUE
                      ctx2   == [s.ctx EXCEPT !.stepResults = PushResult(@, o.val)]
                      nextIn == NextInput(step, o.val, s.input)
                      looped == LoopAlone(step.loop[1], 0,
                                          [ctx |-> ctx2, input |-> nextIn, ok |-> TRUE])
                      n      == IF Iterations(step.loop[1]) > 0
                                THEN Iterations(step.loop[1]) ELSE 0
                  IN  SequencerAlone(steps, k + 1,
                         IF ~ConditionFalse(step, ctx2) /\ step.loop # NoLoop
                         THEN [ctx |-> looped.ctx, input |-> LoopResults(n), ok |-> looped.ok]
                         ELSE [ctx |-> ctx2, input |-> nextIn, ok |-> TRUE])

LoopAlone(loop, i, s) ==
    IF ~(i < Iterations(loop)) \/ ~s.ok THEN s
    ELSE LET body == SequencerAlone(loop.steps, 1,
                        [s EXCEPT !.ctx.variables.loopIndex = Num(i)])
         IN  LoopAlone(loop, i + 1, [body EXCEPT !.input = s.input])

RunAlone(r) ==
    SequencerAlone(StepsOf(r), 1,
        [ctx |-> NewContext(call[r].agentId, r), input |-> call[r].input, ok |-> TRUE])

C21_RunsDoNotShareContext ==
    \A r \in Runs :
        /\ Len(context[ContextOf(r)].stepResults)
              = Cardinality({i \in 1..Len(log[r]) : log[r][i].ok})
        /\ sequenced[r] = "returned" =>
              /\ RunAlone(r).ok
              /\ context[ContextOf(r)] = RunAlone(r).ctx

\* Both calls are inside the loop of the same workflow at once, in different
\* iterations and on different inputs, each with results of its own.
C21_Witness ==
    /\ pc[1] = "steps" /\ pc[2] = "steps"
    /\ call[1].input # call[2].input
    /\ context[ContextOf(1)].variables.loopIndex = Num(1)
    /\ context[ContextOf(2)].variables.loopIndex = Num(0)
    /\ Len(context[ContextOf(1)].stepResults) >= 2
    /\ Len(context[ContextOf(2)].stepResults) >= 1
    /\ context[ContextOf(1)].stepResults[1] # context[ContextOf(2)].stepResults[1]

\* C22: no step is retried: a step occurrence (a top-level step, or a nested
\* step in one iteration) is dispatched at most once in a run, a dispatch makes
\* at most one call of the model backend, and when the backend fails the run
\* has made that one failing call and no other after the successful ones.
ModelSteps(r) == {i \in 1..Len(log[r]) : log[r][i].type = "ai_generate"}

C22_NoStepRetried ==
    \A r \in Runs :
        /\ \A i, j \in 1..Len(log[r]) : log[r][i].path = log[r][j].path => i = j
        /\ modelCalls[r] <=
              IF call[r].workflowId = NoWorkflow THEN 1 ELSE Cardinality(ModelSteps(r))
        /\ (pc[r] = "done" /\ outcome[r].kind = "threw" /\ outcome[r].error \in ModelErrors) =>
              modelCalls[r] = 1 + Cardinality({i \in ModelSteps(r) : log[r][i].ok})

\* The backend failed on the second model step of a run, after the first
\* model step had been answered.
C22_Witness ==
    \E r \in Runs :
        /\ pc[r] = "done" /\ outcome[r].kind = "threw" /\ outcome[r].error \in ModelErrors
        /\ modelCalls[r] = 2
        /\ Cardinality(ModelSteps(r)) = 2
        /\ Row(r).status = "failed"

\* C23: every started run reaches a terminal state: when every awaited call
\* returns or fails, a record created as running is eventually marked
\* completed or failed.
C23_RunReachesTerminal ==
    \A r \in Runs : (Row(r).status = "running") ~> (Row(r).status \in Terminal)

\* C24: the iterations of a loop run one after another on the one context: a
\* step of iteration j is dispatched only after every nested step of the
\* iterations before j has been dispatched and has finished, and it finds in
\* the context all results written before it, those of the earlier iterations
\* included, and the loop index of its own iteration.
Nested(e) == Len(e.path) >= 3
LoopOf(e) == SubSeq(e.path, 1, Len(e.path) - 2)
IterationOf(e) == e.path[Len(e.path) - 1]
ResultsBefore(r, b) ==
    LET es == SelectSeq(SubSeq(log[r], 1, b - 1), LAMBDA e : e.ok)
    IN  [j \in 1..Len(es) |-> es[j].result]

C24_IterationsSequential ==
    \A r \in Runs : \A b \in 1..Len(log[r]) :
        Nested(log[r][b]) =>
            /\ log[r][b].seen = ResultsBefore(r, b)
            /\ \A a \in 1..(b - 1) :
                  (Nested(log[r][a]) /\ LoopOf(log[r][a]) = LoopOf(log[r][b])) =>
                      IterationOf(log[r][a]) <= IterationOf(log[r][b])
            /\ \A i \in 0..(IterationOf(log[r][b]) - 1) :
               \A k \in 1..Len(LoopStepOf(r, log[r][b].path).loop[1].steps) :
                  \E a \in 1..(b - 1) :
                      /\ log[r][a].path = LoopOf(log[r][b]) \o <<i, k>>
                      /\ log[r][a].ok

\* A step of iteration 1 found the result a step of iteration 0 had written.
C24_Witness ==
    \E r \in Runs : \E a, b \in 1..Len(log[r]) :
        /\ Nested(log[r][a]) /\ Nested(log[r][b])
        /\ LoopOf(log[r][a]) = LoopOf(log[r][b])
        /\ IterationOf(log[r][a]) = 0 /\ IterationOf(log[r][b]) = 1
        /\ log[r][a].ok /\ log[r][b].ok
        /\ Len(log[r][b].seen) > Len(log[r][a].seen)
        /\ log[r][b].seen[Len(log[r][a].seen) + 1] = log[r][a].result

\* C25: evaluating a condition is a function of the expression and the
\* context, and leaves the context as it was: at every check the sequencer
\* makes, the evaluation has one possible value, whatever the process holds,
\* and the context after it is the context before it.
CheckedContext(r, e) ==
    [NewContext(call[r].agentId, r) EXCEPT !.stepResults = PushResult(e.seen, e.result),
                                           !.variables.loopIndex = e.loopIndex]

C25_ConditionEvaluationPure ==
    \A r \in Runs : \A i \in 1..Len(log[r]) :
        (log[r][i].ok /\ log[r][i].condition # NoCondition) =>
            LET ctx  == CheckedContext(r, log[r][i])
                outs == EvalOutcomes(log[r][i].condition, ctx)
            IN  /\ \A x, y \in outs : x.threw = y.threw /\ x.val = y.val
                /\ \A x \in outs : x.ctx = ctx

\* C26: the workflow [ai_generate with passOutput, data_transform] on the
\* input "hello", the model answering "HELLO": the second step receives the
\* first step's result { content: "HELLO" } and, being the identity, returns
\* it: the result list is [{content: "HELLO"}, {content: "HELLO"}].
ScenarioPassOutput(r) ==
    /\ call[r].workflowId = "w1" /\ call[r].input = Str("hello")
    /\ StepsOf(r) = <<Step("ai_generate", NoCondition, TRUE, NoLoop),
                      Step("data_transform", NoCondition, FALSE, NoLoop)>>
    /\ sequenced[r] = "returned"

C26_ScenarioPassOutput ==
    \A r \in Runs :
        ScenarioPassOutput(r) =>
            /\ context[ContextOf(r)].stepResults = <<Content("HELLO"), Content("HELLO")>>
            /\ log[r][2].input = Content("HELLO")

\* C26 as stated: the result list is [{content: "HELLO"}, "HELLO"].
C26_ScenarioAsStated ==
    \A r \in Runs :
        ScenarioPassOutput(r) =>
            context[ContextOf(r)].stepResults = <<Content("HELLO"), Str("HELLO")>>

\* The scenario has run to its end and the caller has the result list.
C26_Witness ==
    \E r \in Runs :
        /\ ScenarioPassOutput(r)
        /\ pc[r] = "done" /\ outcome[r].kind = "returned"
        /\ Row(r).status = "completed"

\* C27: the workflow of the single step {tool_call, condition:
\* "context.variables.skip == true"} on a context with variables.skip = true:
\* the condition is true, the step runs, and the result list is the one
\* result of the tool step.
ScenarioSkipRan(r) ==
    /\ StepsOf(r) = ScenarioSkip
    /\ sequenced[r] = "returned"
    /\ log[r] # <<>>
    /\ context[ContextOf(r)].variables.skip = Bool(TRUE)

C28_ProcessingWhileInFlight ==
    \A r \in Runs :
        Row(r).status = "running" => agentMetrics[call[r].agentId].status = "processing"

\* C29: once all calls on an agent have finished, its requestsPerMinute is the
\* number of completed records and its errorRate the number of failed records.
AllFinished == \A r \in Runs : pc[r] \in {"idle", "done"}
RecordsOf(a, status) == {r \in Runs : call[r].agentId = a /\ Row(r).status = status}

C29_MetricsCountRuns ==
    AllFinished =>
        \A a \in Agents :
            /\ agentMetrics[a].requestsPerMinute = Cardinality(RecordsOf(a, "completed"))
            /\ agentMetrics[a].errorRate = Cardinality(RecordsOf(a, "failed"))

\* Two calls on the same agent, in flight at once, have both completed.
C29_Witness ==
    /\ AllFinished
    /\ \E a \in Agents :
          /\ Cardinality(RecordsOf(a, "completed")) = 2
          /\ agentMetrics[a].requestsPerMinute = 2
          /\ agentMetrics[a].status = "idle"

\* C30: a workflow_executions row is inserted only by a run whose steps all
\* finished without error, exactly one per such run and with status completed;
\* a run that failed in a step inserts none; and a run that has its row ends
\* with its agent record completed.
C30_WorkflowRowPerFinishedRun ==
    \A r \in Runs :
        /\ Len(workflowExecutions[r]) <= 1
        /\ \A i \in 1..Len(workflowExecutions[r]) : workflowExecutions[r][i].status = "completed"
        /\ Len(workflowExecutions[r]) = 1 => sequenced[r] = "returned"
        /\ sequenced[r] = "threw" => workflowExecutions[r] = <<>>
        /\ (pc[r] = "done" /\ Len(workflowExecutions[r]) = 1) => Row(r).status = "completed"
        /\ (pc[r] = "done" /\ sequenced[r] = "returned") => Len(workflowExecutions[r]) = 1

====
